---- MODULE Spec2Model ----
(***************************************************************************)
(* Verification model of the drum2midi engine (engine/*.py) and of its     *)
(* callers.  Numbers that are floats in the program are exact rationals    *)
(* here: a rational is a pair <<n, d>> with d > 0.                         *)
(*                                                                         *)
(*   Spec       process_drum_audio   (engine/pipeline.py), one run         *)
(*   SpecVel    strength_to_velocity (engine/midi.py)                      *)
(*   SpecPeaks  pick_peaks           (engine/onset.py)                     *)
(*   SpecQuant  quantize_onsets      (engine/tempo.py)                     *)
(*   SpecTempo  estimate_bpm         (engine/tempo.py)                     *)
(*   SpecMidi   create_drum_midi     (engine/midi.py)                      *)
(*   SpecCache  DemucsWrapper.load_model, called one call after another    *)
(*   SpecCacheConc  the same, called by concurrent callers                 *)
(*   SpecFilter design_lowpass, design_highpass, design_bandpass           *)
(*   SpecServer, SpecServerLive  the job server (server/main.py)           *)
(***************************************************************************)
EXTENDS Integers, Sequences, FiniteSets, TLC

VARIABLES
    strength,        \* SpecVel: numerator of the last strength given (over StrengthDen)
    velocity,        \* SpecVel: <<v>>, the velocity strength_to_velocity returned for it (<<>>: not called)
    prev_strength,   \* SpecVel: the strength of the call before
    prev_velocity,   \* SpecVel: <<v>>, the velocity of the call before (<<>>: none)
    pk_in,           \* SpecPeaks: the arguments of the last pick_peaks call
    pk_out,          \* SpecPeaks: the peak indices (0-based) it returned
    args,            \* Spec: the arguments of the process_drum_audio call
    demucs_available,\* Spec: whether demucs and torch can be imported in this process
    pc,              \* Spec: where process_drum_audio stands
    dirs,            \* Spec: the directories created
    files,           \* Spec: the files written, by name
    stdout,          \* Spec: the lines printed
    heap,            \* Spec: the sample arrays allocated; an array is named by its index
    audio,           \* Spec: the array read from the input file (0: none)
    sample_rate,     \* Spec: the sample rate read from the input file
    detected_bpm,    \* Spec: <<bpm>> once resolved
    separated,       \* Spec: the dict separate_drums returned, stem name -> array
    sep_run,         \* Spec: what the separation did: backend that ran, stems gated
    sep_metadata,    \* Spec: <<get_separation_metadata(...)>> once taken
    effective_method,\* Spec: the method process_drum_audio puts into the report
    stem_i,          \* Spec: the position of the stem loop in separated
    drum_onsets,     \* Spec: dict stem name -> [times, strengths]
    onsets_count,    \* Spec: stem name -> number of onsets
    stem_stats,      \* Spec: stem name -> [rms_db, peak]
    total_notes,     \* Spec: what create_drum_midi returned
    report,          \* Spec: <<report>> once process_drum_audio returned it
    error,           \* Spec: the exception process_drum_audio raised, and where
    calls,           \* Spec: the calls made so far to the estimator, the quantizer and the encoder
    detected,        \* Spec: stem name -> what detect_onsets_with_strength returned for it
    q_in,            \* SpecQuant: the arguments of the quantize_onsets call
    q_out,           \* SpecQuant: <<times>> once it returned
    m_in,            \* SpecMidi: the arguments of the create_drum_midi call
    m_out,           \* SpecMidi: <<result>> once it returned
    t_in,            \* SpecTempo: the arguments of the estimate_bpm call
    t_out,           \* SpecTempo: <<result>> once it returned
    wrapper,         \* SpecCache: the DemucsWrapper singleton: _model and _model_name
    thr,             \* SpecCache: caller -> where its load_model call stands
    loads,           \* SpecCache: the models get_model has loaded, in order
    d_in,            \* SpecFilter: the stem and sample rate a filter is designed for
    d_out,           \* SpecFilter: <<design>> once designed
    jobs,            \* SpecServer: the in-memory job store, job id -> record
    tasks,           \* SpecServer: job id -> where its process_job task stands
    disk,            \* SpecServer: job id -> the state of its result.zip
    response         \* SpecServer: the last response of get_job or download_job

velVars  == <<strength, velocity, prev_strength, prev_velocity>>
peakVars == <<pk_in, pk_out>>
envVars  == <<args, demucs_available>>
pipeVars == <<pc, dirs, files, stdout, heap, audio, sample_rate, detected_bpm, separated,
              sep_run, sep_metadata, effective_method, stem_i, drum_onsets, onsets_count,
              stem_stats, total_notes, report, error, calls, detected>>
fnVars   == <<q_in, q_out, m_in, m_out, t_in, t_out>>
cacheVars == <<wrapper, thr, loads>>
designVars == <<d_in, d_out>>
srvVars  == <<jobs, tasks, disk, response>>
vars     == <<velVars, peakVars, envVars, pipeVars, fnVars, cacheVars, designVars, srvVars>>

----------------------------------------------------------------------------
(* Bounds of the model *)

StrengthDen  == 20   \* strengths are k / StrengthDen
StrengthOver == 3    \* strengths range from -StrengthOver/StrengthDen to 1 + StrengthOver/StrengthDen
MaxFrames    == 5    \* longest envelope given to pick_peaks
MaxLevel     == 2    \* envelope values are k / MaxLevel, k in 0..MaxLevel
MaxDt        == 3    \* frame spacings dt, in time units
MaxMinDist   == 7    \* min_distance_sec, in time units
MaxOnsets    == 2    \* longest onset list given to quantize_onsets and create_drum_midi
MaxTime      == 9    \* onset times are k / TimeDen seconds, k in 0..MaxTime
TimeDen      == 8
MaxTempoFrames == 12 \* longest recording given to estimate_bpm, in analysis windows
MaxRateK     == 30   \* the sample rates 100, 200, ..., 100 * MaxRateK Hz are tried
NumCallers   == 2    \* callers of the ML separation
MaxCalls     == 2    \* calls each of them makes
MaxJobs      == 2    \* jobs the server is given

----------------------------------------------------------------------------
(* Arithmetic on integers and rationals *)

Abs(x) == IF x < 0 THEN -x ELSE x

Max2(a, b) == IF a >= b THEN a ELSE b

Min2(a, b) == IF a <= b THEN a ELSE b

\* Python's int(n / d) for d > 0: truncation towards zero
Trunc(n, d) == IF n >= 0 THEN n \div d ELSE -((-n) \div d)

\* round(n / d) for d > 0, halves to the even neighbour (Python round, numpy.round)
RoundHalfEven(n, d) ==
    LET q == n \div d
        r == n % d
    IN  IF 2 * r < d THEN q
        ELSE IF 2 * r > d THEN q + 1
        ELSE IF q % 2 = 0 THEN q ELSE q + 1

\* numpy.clip on integers
Clip(x, lo, hi) == IF x < lo THEN lo ELSE IF x > hi THEN hi ELSE x

RLe(a, b) == a[1] * b[2] <= b[1] * a[2]

RLt(a, b) == a[1] * b[2] < b[1] * a[2]

RMin(a, b) == IF RLe(a, b) THEN a ELSE b

RMax(a, b) == IF RLe(a, b) THEN b ELSE a

RECURSIVE GCD(_, _)
GCD(a, b) == IF b = 0 THEN a ELSE GCD(b, a % b)

\* the rational n / d (d # 0) in lowest terms with a positive denominator
Rat(n, d) ==
    LET g == GCD(Abs(n), Abs(d))
    IN  IF d > 0 THEN <<n \div g, d \div g>> ELSE <<(-n) \div g, (-d) \div g>>

RSub(a, b) == Rat(a[1] * b[2] - b[1] * a[2], a[2] * b[2])

RMul(a, b) == Rat(a[1] * b[1], a[2] * b[2])

\* a / b for b # 0
RDiv(a, b) == Rat(a[1] * b[2], a[2] * b[1])

RSum(a, b) == Rat(a[1] * b[2] + b[1] * a[2], a[2] * b[2])

\* numpy.clip on rationals
RClip(x, lo, hi) == RMax(lo, RMin(x, hi))

----------------------------------------------------------------------------
(* engine/midi.py: strength_to_velocity *)

min_vel == 1

max_vel == 127

\* the rounding mutant: round() instead of int()
strength_to_velocity_round(s) ==
    LET c == RClip(s, <<0, 1>>, <<1, 1>>)
        v == RoundHalfEven(min_vel * c[2] + c[1] * (max_vel - min_vel), c[2])
    IN  Clip(v, min_vel, max_vel)

\* the mutant without the final clamp and without the clamp of the strength
strength_to_velocity_noclip(s) ==
    Trunc(min_vel * s[2] + s[1] * (max_vel - min_vel), s[2])

\* s is the rational strength; the result is the integer velocity
strength_to_velocity(s) ==
    LET c == RClip(s, <<0, 1>>, <<1, 1>>)
        v == Trunc(min_vel * c[2] + c[1] * (max_vel - min_vel), c[2])
    IN  Clip(v, min_vel, max_vel)

Strengths == (-StrengthOver) .. (StrengthDen + StrengthOver)

InitVel ==
    /\ strength = 0
    /\ velocity = <<>>
    /\ prev_strength = 0
    /\ prev_velocity = <<>>

\* one call strength_to_velocity(k / StrengthDen); the call before is remembered
CallVelocity ==
    /\ \E k \in Strengths :
        /\ strength' = k
        /\ velocity' = <<strength_to_velocity(<<k, StrengthDen>>)>>
    /\ prev_strength' = strength
    /\ prev_velocity' = velocity
    /\ UNCHANGED <<peakVars, envVars, pipeVars, fnVars, cacheVars, designVars, srvVars>>

----------------------------------------------------------------------------
(* engine/onset.py: pick_peaks, with scipy.signal.find_peaks *)

\* the 1-based indices scipy's _local_maxima_1d reports: the midpoint of every
\* plateau that is strictly higher than both of its neighbours; the first and
\* the last sample are never part of a peak
LocalMaxima(x) ==
    { m \in 1 .. Len(x) :
        \E l \in 2 .. Len(x) : \E r \in l .. (Len(x) - 1) :
            /\ m = (l + r) \div 2
            /\ \A i \in l .. r : x[i] = x[l]
            /\ x[l - 1] < x[l]
            /\ x[r + 1] < x[r] }

\* the peak _select_by_peak_distance looks at next: the highest one left, the
\* later one among equals (stable argsort, walked from its end)
NextByPriority(x, todo) ==
    CHOOSE j \in todo : \A k \in todo : x[k] < x[j] \/ (x[k] = x[j] /\ k <= j)

RECURSIVE SelectByPeakDistance(_, _, _, _)
SelectByPeakDistance(x, todo, keep, distance) ==
    IF todo = {} THEN keep
    ELSE LET j == NextByPriority(x, todo)
         IN  IF j \notin keep
             THEN SelectByPeakDistance(x, todo \ {j}, keep, distance)
             ELSE SelectByPeakDistance(x, todo \ {j},
                      keep \ { k \in keep : k # j /\ Abs(k - j) < distance },
                      distance)

\* find_peaks(x, height = threshold, distance = distance); x[i] stands for
\* x[i] / den and threshold is a rational
find_peaks(x, den, threshold, distance) ==
    LET high == { i \in LocalMaxima(x) : RLe(threshold, <<x[i], den>>) }
    IN  SelectByPeakDistance(x, high, high, distance)

\* max(1, int(min_distance_sec / dt))
min_distance_samples(min_distance, dt) ==
    Max2(1, Trunc(min_distance, dt))

\* the mutant that takes a peak of any height
pick_peaks_anyheight(envelope, den, dt, threshold, min_distance) ==
    IF Len(envelope) < 3 THEN {}
    ELSE { i - 1 : i \in find_peaks(envelope, den, <<0, 1>>,
                                    min_distance_samples(min_distance, dt)) }

\* pick_peaks(envelope, times, threshold, min_distance_sec) with
\* times[i] = t0 + i * dt; the result is the set of 0-based peak indices, whose
\* times are t0 + i * dt and whose strengths are envelope[i]
pick_peaks(envelope, den, dt, threshold, min_distance) ==
    IF Len(envelope) < 3 THEN {}
    ELSE { i - 1 : i \in find_peaks(envelope, den, threshold,
                                    min_distance_samples(min_distance, dt)) }

RECURSIVE SeqsUpTo(_, _)
SeqsUpTo(S, n) ==
    IF n = 0 THEN { <<>> }
    ELSE LET shorter == SeqsUpTo(S, n - 1)
         IN  shorter \cup { Append(s, e) : s \in { t \in shorter : Len(t) = n - 1 }, e \in S }

Envelopes == SeqsUpTo(0 .. MaxLevel, MaxFrames)

\* the default threshold 0.1 and one higher threshold
Thresholds == { <<1, 10>>, <<3, 4>> }

InitPeaks ==
    /\ pk_in \in [envelope : Envelopes, dt : 1 .. MaxDt, threshold : Thresholds,
                  min_distance : 0 .. MaxMinDist, called : {FALSE}]
    /\ pk_out = {}

\* the call pick_peaks(envelope, times, threshold, min_distance_sec) on the
\* arguments drawn
CallPickPeaks ==
    /\ ~pk_in.called
    /\ pk_in' = [pk_in EXCEPT !.called = TRUE]
    /\ pk_out' = pick_peaks(pk_in.envelope, MaxLevel, pk_in.dt, pk_in.threshold,
                            pk_in.min_distance)
    /\ UNCHANGED <<velVars, envVars, pipeVars, fnVars, cacheVars, designVars, srvVars>>

\* the arguments of a specification that never calls pick_peaks
IdlePeaks ==
    /\ pk_in = [envelope |-> <<>>, dt |-> 1, threshold |-> <<1, 10>>, min_distance |-> 0,
                called |-> FALSE]
    /\ pk_out = {}

----------------------------------------------------------------------------
(* Signals.  A signal is [n, frames, gain]: n is its number of samples,        *)
(* frames[t] the magnitude spectrum of its t-th analysis window, as one level *)
(* per frequency band (0 silent, 1 quiet, 2 loud), and gain the rational      *)
(* factor all of its samples are scaled by.  The bands are the ones the       *)
(* filter edges of engine/separation.py cut the spectrum into.                *)

Bands == { "b0_80", "b80_150", "b150_500", "b500_4000", "b4000_5000", "b5000_up" }

n_fft == 2048

hop_length == 512

\* the number of columns of signal.spectrogram(nperseg = n_fft, noverlap = n_fft - hop)
NumFrames(n) == IF n < n_fft THEN 0 ELSE (n - (n_fft - hop_length)) \div hop_length

Silence == [b \in Bands |-> 0]

\* the amplitude of one frame
Amp(frame) ==
    frame["b0_80"] + frame["b80_150"] + frame["b150_500"] + frame["b500_4000"]
        + frame["b4000_5000"] + frame["b5000_up"]

\* what a zero-phase Butterworth filter with the pass band `pass` leaves of a signal
filtfilt(pass, sig) ==
    [n |-> sig.n, gain |-> sig.gain,
     frames |-> [t \in 1 .. Len(sig.frames) |->
                    [b \in Bands |-> IF b \in pass THEN sig.frames[t][b] ELSE 0]]]

\* signal.resample(x, new_length): the same content on new_length samples; a
\* new frame holds what the old frame around its centre held
resample(sig, new_length) ==
    LET F == Len(sig.frames)
        G == NumFrames(new_length)
    IN  [n |-> new_length, gain |-> sig.gain,
         frames |-> [t \in 1 .. G |->
                        IF F = 0 THEN Silence
                        ELSE sig.frames[((2 * t - 1) * F) \div (2 * G) + 1]]]

\* a dict with its insertion order
EmptyDict == [keys |-> <<>>, val |-> <<>>]

DictHas(d, k) == \E i \in 1 .. Len(d.keys) : d.keys[i] = k

DictPut(d, k, v) ==
    IF DictHas(d, k)
    THEN [keys |-> d.keys, val |-> [d.val EXCEPT ![k] = v]]
    ELSE [keys |-> Append(d.keys, k), val |-> d.val @@ (k :> v)]

----------------------------------------------------------------------------
(* engine/separation.py: the DSP separation *)

\* butter() accepts a digital critical frequency only strictly between 0 and 1
ButterOk(wn) == RLt(<<0, 1>>, wn) /\ RLt(wn, <<1, 1>>)

design_lowpass(cutoff, sr) ==
    LET normalized_cutoff == RMin(Rat(2 * cutoff, sr), <<999, 1000>>)
    IN  [ok |-> ButterOk(normalized_cutoff), wn |-> <<normalized_cutoff>>,
         pass |-> { "b0_80", "b80_150" }]

design_highpass(cutoff, sr) ==
    LET normalized_cutoff == RMax(Rat(2 * cutoff, sr), <<1, 1000>>)
    IN  [ok |-> ButterOk(normalized_cutoff), wn |-> <<normalized_cutoff>>,
         pass |-> { "b5000_up" }]

design_bandpass(lowcut, highcut, sr) ==
    LET low  == RMax(<<1, 1000>>, RMin(Rat(2 * lowcut, sr), <<999, 1000>>))
        high == RMax(RSum(low, <<1, 1000>>), RMin(Rat(2 * highcut, sr), <<999, 1000>>))
    IN  [ok |-> ButterOk(low) /\ ButterOk(high) /\ RLt(low, high), wn |-> <<low, high>>,
         pass |-> IF lowcut = 150 THEN { "b150_500", "b500_4000" }
                  ELSE { "b80_150", "b150_500" }]

\* the level above which the envelope follower of apply_gate opens the gate
GateLevel == 1

\* apply_gate(audio, threshold_db, sample_rate = sample_rate): frames whose
\* amplitude stays at or below the threshold are muted; the attack window
\* linspace(0, 1, attack_samples) / attack_samples, of total weight 1/2, halves
\* what passes
apply_gate(sig, sr) ==
    LET attack_samples == Trunc(sr, 1000)
    IN  [n |-> sig.n,
         gain |-> IF attack_samples > 1 THEN <<sig.gain[1], 2 * sig.gain[2]>> ELSE sig.gain,
         frames |-> [t \in 1 .. Len(sig.frames) |->
                        IF Amp(sig.frames[t]) > GateLevel THEN sig.frames[t] ELSE Silence]]

\* the filter separate_drums_bandpass designs for a stem it has a band for
StemFilter(stem, sr) ==
    IF stem = "kick" THEN design_lowpass(150, sr)
    ELSE IF stem = "snare" THEN design_bandpass(150, 4000, sr)
    ELSE IF stem = "hihat" THEN design_highpass(5000, sr)
    ELSE design_bandpass(80, 500, sr)

\* sample rates: low ones in steps of 100 Hz and the usual ones
SampleRates ==
    { 100 * k : k \in 1 .. MaxRateK } \cup { 8000, 11025, 16000, 22050, 44100, 48000 }

InitDesign ==
    /\ d_in \in [stem : { "kick", "snare", "hihat", "toms" }, sample_rate : SampleRates]
    /\ d_out = <<>>

\* the design of the filter of one stem at one sample rate
CallDesign ==
    /\ d_out = <<>>
    /\ d_out' = << StemFilter(d_in.stem, d_in.sample_rate) >>
    /\ UNCHANGED d_in
    /\ UNCHANGED <<velVars, peakVars, envVars, pipeVars, fnVars, cacheVars, srvVars>>

\* the arguments of a specification that designs no filter
IdleDesign ==
    /\ d_in = [stem |-> "kick", sample_rate |-> 44100]
    /\ d_out = <<>>

\* the stems separate_drums_bandpass gates when gating is on (toms is not)
GatedStems == { "kick", "snare", "hihat" }

FilteredStems == { "kick", "snare", "hihat", "toms" }

\* the aliasing mutant: the pass-through stem is the input array itself
PassThroughAlias(st, src) == [st EXCEPT !.result = DictPut(st.result, st.stem, src)]

\* result[stem] = audio.copy(): a new array with the samples of the input
PassThrough(st, src) ==
    [st EXCEPT !.heap = Append(st.heap, st.heap[src]),
               !.result = DictPut(st.result, st.stem, Len(st.heap) + 1)]

\* one round of the loop of separate_drums_bandpass; st carries the arrays
\* allocated so far (heap), the result dict, the stems gated and the error
\* raised, if any
BandpassStem(st0, src, sr, stem, quality) ==
    LET st == [st0 EXCEPT !.stem = stem]
    IN  IF stem \in FilteredStems
        THEN LET f        == StemFilter(stem, sr)
                 filtered == filtfilt(f.pass, st.heap[src])
                 gating   == quality \in { "balanced", "best" } /\ stem \in GatedStems
                 out      == IF gating THEN apply_gate(filtered, sr) ELSE filtered
             IN  IF ~f.ok THEN [st EXCEPT !.error = "ValueError"]
                 ELSE [st EXCEPT !.heap = Append(st.heap, out),
                                 !.result = DictPut(st.result, stem, Len(st.heap) + 1),
                                 !.gated = IF gating THEN st.gated \cup {stem} ELSE st.gated]
        ELSE PassThrough(st, src)

RECURSIVE BandpassLoop(_, _, _, _, _, _)
BandpassLoop(st, src, sr, stems, quality, i) ==
    IF i > Len(stems) \/ st.error # "none" THEN st
    ELSE BandpassLoop(BandpassStem(st, src, sr, stems[i], quality),
                      src, sr, stems, quality, i + 1)

\* separate_drums_bandpass(audio, sample_rate, stems, quality) on the arrays of heap
separate_drums_bandpass(h, src, sr, stems, quality) ==
    BandpassLoop([heap |-> h, result |-> EmptyDict, gated |-> {}, error |-> "none",
                  stem |-> "", backend |-> "bandpass", warned |-> FALSE],
                 src, sr, stems, quality, 1)

----------------------------------------------------------------------------
(* engine/separation.py: the ML separation and the dispatch *)

\* model.samplerate and model.sources of the pretrained htdemucs model
model_sr == 44100

source_names == { "drums", "bass", "other", "vocals" }

\* the filter DemucsWrapper.separate applies to the drums source for a stem
DemucsFilter(stem) ==
    IF stem = "kick" THEN design_lowpass(150, model_sr)
    ELSE IF stem = "snare" THEN design_bandpass(150, 4000, model_sr)
    ELSE IF stem = "hihat" THEN design_highpass(5000, model_sr)
    ELSE design_bandpass(80, 500, model_sr)

\* apply_model on a recording of drums: all of it is the drums source, the
\* three other sources are silent
ModelSource(name, mix) ==
    IF name = "drums" THEN mix
    ELSE [n |-> mix.n, gain |-> mix.gain, frames |-> [t \in 1 .. Len(mix.frames) |-> Silence]]

\* one round of the stem loop of DemucsWrapper.separate; mix is the input at
\* the model's rate; a stem that is neither a drum with a band nor a source of
\* the model gets no entry
DemucsStem(st0, mix, sr, stem) ==
    LET st   == [st0 EXCEPT !.stem = stem]
        back == Trunc(mix.n * sr, model_sr)
        put(sig) ==
            [st EXCEPT !.heap = Append(st.heap,
                                       IF sr # model_sr THEN resample(sig, back) ELSE sig),
                       !.result = DictPut(st.result, stem, Len(st.heap) + 1)]
    IN  IF stem \in FilteredStems
        THEN IF "drums" \in source_names
             THEN IF ~DemucsFilter(stem).ok THEN [st EXCEPT !.error = "ValueError"]
                  ELSE put(filtfilt(DemucsFilter(stem).pass, ModelSource("drums", mix)))
             ELSE st
        ELSE IF stem \in source_names THEN put(ModelSource(stem, mix))
        ELSE st

RECURSIVE DemucsLoop(_, _, _, _, _)
DemucsLoop(st, mix, sr, stems, i) ==
    IF i > Len(stems) \/ st.error # "none" THEN st
    ELSE DemucsLoop(DemucsStem(st, mix, sr, stems[i]), mix, sr, stems, i + 1)

\* separate_drums_demucs -> DemucsWrapper.separate; avail tells whether torch
\* and demucs can be imported
separate_drums_demucs(h, src, sr, stems, avail) ==
    LET st0 == [heap |-> h, result |-> EmptyDict, gated |-> {}, error |-> "none",
                stem |-> "", backend |-> "demucs", warned |-> FALSE]
        mix == IF sr # model_sr
               THEN resample(h[src], Trunc(h[src].n * model_sr, sr))
               ELSE h[src]
    IN  IF ~avail THEN [st0 EXCEPT !.error = "ImportError"]
        ELSE DemucsLoop(st0, mix, sr, stems, 1)

\* the mutant without the availability checks: "auto" and "demucs" always go
\* to the ML backend
separate_drums_unchecked(h, src, sr, stems, method, config, avail) ==
    LET effective == IF config.method # "auto" THEN config.method ELSE method
    IN  IF effective \in { "auto", "demucs" }
        THEN separate_drums_demucs(h, src, sr, stems, avail)
        ELSE separate_drums_bandpass(h, src, sr, stems, config.quality)

\* the mutant that falls back without a word
separate_drums_silent(h, src, sr, stems, method, config, avail) ==
    LET effective == IF config.method # "auto" THEN config.method ELSE method
    IN  IF effective \in { "auto", "demucs" } /\ avail
        THEN separate_drums_demucs(h, src, sr, stems, avail)
        ELSE separate_drums_bandpass(h, src, sr, stems, config.quality)

\* separate_drums(audio, sample_rate, stems, method, config); the result is
\* the record of the backend that ran: its arrays (heap), its result dict, the
\* error it raised, and whether the fallback warning was printed
separate_drums(h, src, sr, stems, method, config, avail) ==
    LET effective == IF config.method # "auto" THEN config.method ELSE method
        resolved == IF effective = "auto"
                    THEN (IF avail THEN "demucs" ELSE "bandpass")
                    ELSE effective
        warn == resolved = "demucs" /\ ~avail
        final == IF warn THEN "bandpass" ELSE resolved
    IN  IF final = "demucs"
        THEN separate_drums_demucs(h, src, sr, stems, avail)
        ELSE IF final = "bandpass"
        THEN [separate_drums_bandpass(h, src, sr, stems, config.quality)
                EXCEPT !.warned = warn]
        ELSE [heap |-> h, result |-> EmptyDict, gated |-> {}, error |-> "ValueError",
              stem |-> "", backend |-> "none", warned |-> warn]

\* get_device("auto") on a machine without an accelerator
get_device(device) == IF device # "auto" THEN device ELSE "cpu"

get_separation_metadata(config, avail) ==
    [method |-> config.method,
     model |-> IF config.method = "demucs" THEN config.model ELSE "None",
     device |-> IF config.method = "demucs" THEN get_device(config.device) ELSE "None",
     quality |-> config.quality,
     demucs_available |-> avail]

----------------------------------------------------------------------------
(* engine/separation.py: DemucsWrapper, the process-wide singleton that     *)
(* keeps the loaded model.  A model object is named by its position in      *)
(* loads; 0 is None.                                                        *)

ModelNames == { "htdemucs", "mdx_extra" }

Devices == { "cpu", "cuda" }

Callers == 1 .. NumCallers

\* where a caller is not inside load_model
Outside == { "idle", "returned" }

InitCache ==
    /\ wrapper = [model |-> 0, model_name |-> "None"]
    /\ thr = [t \in Callers |-> [pc |-> "idle", model_name |-> "None", device |-> "None",
                                  served |-> 0, calls |-> 0]]
    /\ loads = <<>>

\* separate_drums_demucs -> DemucsWrapper().separate -> self.load_model(model_name, device)
CallLoadModel(t) ==
    /\ thr[t].pc \in Outside
    /\ thr[t].calls < MaxCalls
    /\ \E name \in ModelNames, device \in Devices :
           thr' = [thr EXCEPT ![t] = [pc |-> "check", model_name |-> name, device |-> device,
                                      served |-> 0, calls |-> thr[t].calls + 1]]
    /\ UNCHANGED <<wrapper, loads>>
    /\ UNCHANGED <<velVars, peakVars, envVars, pipeVars, fnVars, designVars, srvVars>>

\* the same call made while no other call is inside load_model
CallLoadModelAlone(t) ==
    /\ \A u \in Callers : thr[u].pc \in Outside
    /\ CallLoadModel(t)

\* lines 213-214: the cached model is returned if its name is the one asked
\* for; otherwise get_model is entered
CheckCache(t) ==
    /\ thr[t].pc = "check"
    /\ IF wrapper.model # 0 /\ wrapper.model_name = thr[t].model_name
       THEN thr' = [thr EXCEPT ![t].pc = "returned", ![t].served = wrapper.model]
       ELSE thr' = [thr EXCEPT ![t].pc = "loading"]
    /\ UNCHANGED <<wrapper, loads>>
    /\ UNCHANGED <<velVars, peakVars, envVars, pipeVars, fnVars, designVars, srvVars>>

\* line 221: self._model = get_model(model_name), a new model object on the cpu
GetModel(t) ==
    /\ thr[t].pc = "loading"
    /\ loads' = Append(loads, [model_name |-> thr[t].model_name, asked_device |-> thr[t].device,
                                device |-> "cpu"])
    /\ wrapper' = [wrapper EXCEPT !.model = Len(loads) + 1]
    /\ thr' = [thr EXCEPT ![t].pc = "to_device"]
    /\ UNCHANGED <<velVars, peakVars, envVars, pipeVars, fnVars, designVars, srvVars>>

\* lines 222-223: self._model.to(device); self._model.eval()
ToDevice(t) ==
    /\ thr[t].pc = "to_device"
    /\ loads' = [loads EXCEPT ![wrapper.model].device = thr[t].device]
    /\ thr' = [thr EXCEPT ![t].pc = "set_name"]
    /\ UNCHANGED wrapper
    /\ UNCHANGED <<velVars, peakVars, envVars, pipeVars, fnVars, designVars, srvVars>>

\* lines 224-226: self._model_name = model_name; return self._model
SetModelName(t) ==
    /\ thr[t].pc = "set_name"
    /\ wrapper' = [wrapper EXCEPT !.model_name = thr[t].model_name]
    /\ thr' = [thr EXCEPT ![t].pc = "returned", ![t].served = wrapper.model]
    /\ UNCHANGED loads
    /\ UNCHANGED <<velVars, peakVars, envVars, pipeVars, fnVars, designVars, srvVars>>

\* the state of a specification that never calls load_model
IdleCache ==
    /\ wrapper = [model |-> 0, model_name |-> "None"]
    /\ thr = [t \in Callers |-> [pc |-> "idle", model_name |-> "None", device |-> "None",
                                  served |-> 0, calls |-> MaxCalls]]
    /\ loads = <<>>

----------------------------------------------------------------------------
(* engine/onset.py, engine/tempo.py: envelope, onsets, tempo, quantization *)

RECURSIVE SumSeq(_, _)
SumSeq(f, i) == IF i = 0 THEN 0 ELSE f[i] + SumSeq(f, i - 1)

RECURSIVE MaxSeq(_, _)
MaxSeq(f, i) == IF i = 0 THEN 0 ELSE Max2(f[i], MaxSeq(f, i - 1))

\* the half-wave rectified spectral flux from frame a to frame b
Flux(a, b) ==
    Max2(0, b["b0_80"] - a["b0_80"]) + Max2(0, b["b80_150"] - a["b80_150"])
        + Max2(0, b["b150_500"] - a["b150_500"]) + Max2(0, b["b500_4000"] - a["b500_4000"])
        + Max2(0, b["b4000_5000"] - a["b4000_5000"]) + Max2(0, b["b5000_up"] - a["b5000_up"])

\* compute_onset_envelope(audio, sample_rate): the envelope is num[i] / den.
\* spectrogram() raises on a signal without one full window, and max() of the
\* empty envelope of a one-column spectrogram raises too
compute_onset_envelope(sig) ==
    LET F    == Len(sig.frames)
        flux == [t \in 1 .. (F - 1) |->
                    IF sig.gain[1] = 0 THEN 0 ELSE Flux(sig.frames[t], sig.frames[t + 1])]
        top  == MaxSeq(flux, F - 1)
    IN  IF F < 2 THEN [error |-> "ValueError", num |-> <<>>, den |-> 1]
        ELSE [error |-> "none", num |-> flux, den |-> IF top > 0 THEN top ELSE 1]

\* the time in seconds of envelope entry i (0-based): times[1:][i] of the spectrogram
FrameTime(i, sr) == Rat((i + 1) * hop_length + n_fft \div 2, sr)

\* detect_onsets_with_strength(audio, sample_rate) with the default threshold
\* 0.1 and min_distance_sec 0.030: the onset times and strengths, in time order
detect_onsets_with_strength(sig, sr) ==
    LET env   == compute_onset_envelope(sig)
        peaks == pick_peaks(env.num, env.den, 100 * hop_length, <<1, 10>>, 3 * sr)
        RECURSIVE Ordered(_, _)
        Ordered(i, acc) ==
            IF i >= Len(env.num) THEN acc
            ELSE Ordered(i + 1, IF i \in peaks THEN Append(acc, i) ELSE acc)
        idx   == Ordered(0, <<>>)
    IN  IF env.error # "none" THEN [error |-> env.error, times |-> <<>>, strengths |-> <<>>]
        ELSE [error |-> "none",
              times |-> [k \in 1 .. Len(idx) |-> FrameTime(idx[k], sr)],
              strengths |-> [k \in 1 .. Len(idx) |-> Rat(env.num[idx[k] + 1], env.den)]]

\* the autocorrelation of the mean-centred envelope at one lag, scaled by the
\* positive factor (N * den)^2, which leaves its argmax where it is
Autocorr(num, lag) ==
    LET N == Len(num)
        total == SumSeq(num, N)
        c == [i \in 1 .. N |-> N * num[i] - total]
    IN  SumSeq([i \in 1 .. (N - lag) |-> c[i] * c[i + lag]], N - lag)

\* numpy.argmax of autocorr[min_lag:max_lag], plus min_lag: the first lag of
\* the largest value
ArgMaxLag(num, min_lag, max_lag) ==
    CHOOSE l \in min_lag .. (max_lag - 1) :
        \A m \in min_lag .. (max_lag - 1) :
            \/ Autocorr(num, m) < Autocorr(num, l)
            \/ (Autocorr(num, m) = Autocorr(num, l) /\ l <= m)

\* the mutant without the fallback for short envelopes
estimate_bpm_anylength(sig, sr, min_bpm, max_bpm) ==
    LET env     == compute_onset_envelope(sig)
        N       == Len(env.num)
        min_lag == Max2(1, Trunc(60 * sr, max_bpm * hop_length))
        max_lag == Min2(N - 1, Trunc(60 * sr, min_bpm * hop_length))
    IN  IF env.error # "none" THEN [error |-> env.error, bpm |-> <<120, 1>>]
        ELSE IF min_lag >= max_lag THEN [error |-> "none", bpm |-> <<120, 1>>]
        ELSE [error |-> "none",
              bpm |-> Rat(60 * sr, ArgMaxLag(env.num, min_lag, max_lag) * hop_length)]

\* estimate_bpm(audio, sample_rate, min_bpm, max_bpm): dt = hop / sample_rate
estimate_bpm(sig, sr, min_bpm, max_bpm) ==
    LET env     == compute_onset_envelope(sig)
        N       == Len(env.num)
        min_lag == Max2(1, Trunc(60 * sr, max_bpm * hop_length))
        max_lag == Min2(N - 1, Trunc(60 * sr, min_bpm * hop_length))
    IN  IF env.error # "none" THEN [error |-> env.error, bpm |-> <<120, 1>>]
        ELSE IF N < 10 THEN [error |-> "none", bpm |-> <<120, 1>>]
        ELSE IF min_lag >= max_lag THEN [error |-> "none", bpm |-> <<120, 1>>]
        ELSE [error |-> "none",
              bpm |-> Rat(60 * sr, ArgMaxLag(env.num, min_lag, max_lag) * hop_length)]

\* round(t / g) * g for rationals t and g # 0
NearestGrid(t, g) ==
    LET r == RDiv(t, g)
    IN  RMul(<<RoundHalfEven(r[1], r[2]), 1>>, g)

\* the mutant that snaps fully to the grid whatever the strength
quantize_onsets_full(onset_times, bpm, grid_division, q_strength) ==
    LET grid_spacing == RDiv(RDiv(<<60, 1>>, bpm), <<grid_division, 4>>)
    IN  IF Len(onset_times) = 0 THEN [error |-> "none", times |-> onset_times]
        ELSE IF bpm[1] = 0 THEN [error |-> "ZeroDivisionError", times |-> <<>>]
        ELSE [error |-> "none",
              times |-> [k \in 1 .. Len(onset_times) |->
                            NearestGrid(onset_times[k], grid_spacing)]]

\* quantize_onsets(onset_times, bpm, grid_division, strength)
quantize_onsets(onset_times, bpm, grid_division, q_strength) ==
    LET grid_spacing == RDiv(RDiv(<<60, 1>>, bpm), <<grid_division, 4>>)
    IN  IF Len(onset_times) = 0 THEN [error |-> "none", times |-> onset_times]
        ELSE IF bpm[1] = 0 THEN [error |-> "ZeroDivisionError", times |-> <<>>]
        ELSE [error |-> "none",
              times |-> [k \in 1 .. Len(onset_times) |->
                            RSum(onset_times[k],
                                 RMul(q_strength,
                                      RSub(NearestGrid(onset_times[k], grid_spacing),
                                           onset_times[k])))]]

\* onset lists: up to MaxOnsets times k / TimeDen
OnsetTimes == { Rat(k, TimeDen) : k \in 0 .. MaxTime }

OnsetLists == SeqsUpTo(OnsetTimes, MaxOnsets)

\* positive tempos, a fractional one among them
PositiveBpms == { <<60, 1>>, <<90, 1>>, <<120, 1>>, <<375, 2>> }

GridDivisions == { 4, 16 }

QuantizeStrengths == { <<0, 1>>, <<1, 2>>, <<1, 1>> }

InitQuant ==
    /\ q_in \in [onset_times : OnsetLists, bpm : PositiveBpms, grid_division : GridDivisions,
                 strength : QuantizeStrengths]
    /\ q_out = <<>>

\* the call quantize_onsets(onset_times, bpm, grid_division, strength) on the
\* arguments drawn
CallQuantize ==
    /\ q_out = <<>>
    /\ q_out' = << quantize_onsets(q_in.onset_times, q_in.bpm, q_in.grid_division,
                                   q_in.strength) >>
    /\ UNCHANGED <<q_in, m_in, m_out, t_in, t_out>>
    /\ UNCHANGED <<velVars, peakVars, envVars, pipeVars, cacheVars, designVars, srvVars>>

\* the arguments of a specification that never calls quantize_onsets
IdleQuant ==
    /\ q_in = [onset_times |-> <<>>, bpm |-> <<120, 1>>, grid_division |-> 16,
               strength |-> <<1, 1>>]
    /\ q_out = <<>>

----------------------------------------------------------------------------
(* engine/midi.py: the note encoder *)

GM_DRUM_MAP ==
    [kick |-> 36, snare |-> 38, hihat_closed |-> 42, hihat_open |-> 46, hihat |-> 42,
     tom_low |-> 45, tom_mid |-> 47, tom_high |-> 50, crash |-> 49, ride |-> 51]

\* the mutant that leaves the onset times in seconds
generate_midi_file_seconds(notes, bpm) ==
    LET RECURSIVE Events(_, _, _)
        Events(i, k, acc) ==
            IF i > Len(notes) THEN acc
            ELSE IF k > Len(notes[i].times) THEN Events(i + 1, 1, acc)
            ELSE Events(i, k + 1,
                        Append(acc, [track |-> 0, channel |-> 9, pitch |-> notes[i].note_num,
                                     time |-> notes[i].times[k],
                                     duration |-> <<1, 10>>,
                                     velocity |-> notes[i].velocities[k]]))
    IN  [error |-> "none", opened |-> TRUE,
         tempo |-> << [track |-> 0, time |-> 0, tempo |-> bpm] >>,
         events |-> Events(1, 1, <<>>)]

\* generate_midi_file(path, notes, bpm, duration = 0.1): one tempo event at 0,
\* then one note per onset on track 0, channel 9: the addTempo and addNote
\* calls, in order.  MIDIFile.addTempo divides 60000000 by the tempo, and
\* writeFile, called once the file is open, cannot pack a negative tempo
generate_midi_file(notes, bpm) ==
    LET RECURSIVE Events(_, _, _)
        Events(i, k, acc) ==
            IF i > Len(notes) THEN acc
            ELSE IF k > Len(notes[i].times) THEN Events(i + 1, 1, acc)
            ELSE Events(i, k + 1,
                        Append(acc, [track |-> 0, channel |-> 9, pitch |-> notes[i].note_num,
                                     time |-> RDiv(RMul(notes[i].times[k], bpm), <<60, 1>>),
                                     duration |-> <<1, 10>>,
                                     velocity |-> notes[i].velocities[k]]))
        addTempo == << [track |-> 0, time |-> 0, tempo |-> bpm] >>
    IN  IF bpm[1] = 0 THEN [error |-> "ZeroDivisionError", opened |-> FALSE, tempo |-> <<>>,
                            events |-> <<>>]
        ELSE IF bpm[1] < 0 THEN [error |-> "struct.error", opened |-> TRUE, tempo |-> addTempo,
                                 events |-> <<>>]
        ELSE [error |-> "none", opened |-> TRUE, tempo |-> addTempo,
              events |-> Events(1, 1, <<>>)]

\* the mutant that takes every name for a name of the map
InDrumMapAny(drum_name) == TRUE

\* drum_name in GM_DRUM_MAP
InDrumMap(drum_name) == drum_name \in DOMAIN GM_DRUM_MAP

\* create_drum_midi(path, drum_onsets, bpm): the notes of the stems that have
\* a note number, their count, and the file written if there is any note list
create_drum_midi(onsets, bpm) ==
    LET RECURSIVE Loop(_, _, _)
        Loop(i, notes, total) ==
            IF i > Len(onsets.keys) THEN [notes |-> notes, total_notes |-> total]
            ELSE LET drum_name == onsets.keys[i]
                     o == onsets.val[drum_name]
                 IN  IF ~InDrumMap(drum_name) THEN Loop(i + 1, notes, total)
                     ELSE Loop(i + 1,
                               Append(notes,
                                      [note_num |-> IF drum_name \in DOMAIN GM_DRUM_MAP
                                                    THEN GM_DRUM_MAP[drum_name] ELSE 0,
                                       times |-> o.times,
                                       velocities |-> [k \in 1 .. Len(o.strengths) |->
                                                          strength_to_velocity(o.strengths[k])]]),
                               total + Len(o.times))
        r == Loop(1, <<>>, 0)
        f == generate_midi_file(r.notes, bpm)
    IN  IF r.notes = <<>>
        THEN [error |-> "none", written |-> FALSE, file |-> <<>>, total_notes |-> r.total_notes]
        ELSE [error |-> f.error, written |-> f.opened, file |-> <<f>>,
              total_notes |-> r.total_notes]

\* the drum names given to create_drum_midi: those of the map and two others
DrumNames == (DOMAIN GM_DRUM_MAP) \cup { "toms", "cowbell" }

\* the onsets of one drum: n times and n strengths, n in 0 .. MaxOnsets
OnsetData ==
    { [times |-> [k \in 1 .. n |-> Rat(4 * k - 3, TimeDen)],
       strengths |-> [k \in 1 .. n |-> Rat(k, n)]] : n \in 0 .. MaxOnsets }

\* the drum_onsets dicts of no, one or two drums
OnsetDicts ==
    { EmptyDict }
        \cup { DictPut(EmptyDict, a, x) : a \in DrumNames, x \in OnsetData }
        \cup { DictPut(DictPut(EmptyDict, a, x), b, y) :
                   a \in DrumNames, b \in DrumNames, x \in OnsetData, y \in OnsetData }

InitMidi ==
    /\ m_in \in [drum_onsets : OnsetDicts, bpm : { <<120, 1>>, <<375, 2>> }]
    /\ m_out = <<>>

\* the call create_drum_midi(path, drum_onsets, bpm) on the arguments drawn
CallCreateDrumMidi ==
    /\ m_out = <<>>
    /\ m_out' = << create_drum_midi(m_in.drum_onsets, m_in.bpm) >>
    /\ UNCHANGED <<m_in, q_in, q_out, t_in, t_out>>
    /\ UNCHANGED <<velVars, peakVars, envVars, pipeVars, cacheVars, designVars, srvVars>>

\* the arguments of a specification that never calls create_drum_midi
IdleMidi ==
    /\ m_in = [drum_onsets |-> EmptyDict, bpm |-> <<120, 1>>]
    /\ m_out = <<>>

----------------------------------------------------------------------------
(* engine/io.py and the input files of the model *)

Hit(levels) == [b \in Bands |-> IF b \in DOMAIN levels THEN levels[b] ELSE 0]

KickHit == Hit([b0_80 |-> 2, b80_150 |-> 2])

SnareHit == Hit([b150_500 |-> 2, b500_4000 |-> 2])

HatHit == Hit([b5000_up |-> 2])

Hiss == Hit([b5000_up |-> 1])

Mix(a, b) == [x \in Bands |-> a[x] + b[x]]

\* the recordings: a clip shorter than one analysis window, a bar of kick,
\* snare and hihat at 44.1 kHz, digital silence, and a kick/snare loop at 8 kHz
Clips ==
    [short  |-> [sample_rate |-> 44100, n |-> 1000, frames |-> <<>>],
     beat   |-> [sample_rate |-> 44100, n |-> 5120,
                 frames |-> << Silence, Hiss, Mix(KickHit, HatHit), Hiss,
                               Mix(SnareHit, HatHit), Hiss, Silence >>],
     silent |-> [sample_rate |-> 44100, n |-> 3584,
                 frames |-> << Silence, Silence, Silence, Silence >>],
     loop8k |-> [sample_rate |-> 8000, n |-> 7681,
                 frames |-> << Silence, KickHit, Silence, Silence, Silence, Silence,
                               SnareHit, Silence, Silence, Silence, Silence, KickHit >>]]

\* read_audio(path): samples and sample rate, or the exception raised
read_audio(file) ==
    IF file = "missing" THEN [error |-> "FileNotFoundError"]
    ELSE IF file = "unreadable" THEN [error |-> "RuntimeError"]
    ELSE [error |-> "none", sr |-> Clips[file].sample_rate,
          audio |-> [n |-> Clips[file].n, gain |-> <<1, 1>>, frames |-> Clips[file].frames]]

\* a frame of amplitude AmpUnit is at full scale 1.0
AmpUnit == 4

\* the largest absolute sample of frame t
FramePeak(sig, t) == Rat(Amp(sig.frames[t]) * sig.gain[1], AmpUnit * sig.gain[2])

\* the mutant that writes the samples as they are
write_audio_noclip(sig, sr) ==
    [sample_rate |-> sr, n |-> sig.n,
     peaks |-> [t \in 1 .. Len(sig.frames) |-> FramePeak(sig, t)]]

\* write_audio(path, audio, sample_rate): the samples clipped to [-1, 1]
write_audio(sig, sr) ==
    [sample_rate |-> sr, n |-> sig.n,
     peaks |-> [t \in 1 .. Len(sig.frames) |-> RClip(FramePeak(sig, t), <<-1, 1>>, <<1, 1>>)]]

\* round(x, digits) of a rational x, scale = 10^digits
RoundTo(x, scale) == Rat(RoundHalfEven(x[1] * scale, x[2]), scale)

\* the statistics of pipeline.py lines 92-97; the level in dB is kept as the
\* mean square it is the logarithm of
StemStats(sig) ==
    LET F  == Len(sig.frames)
        sq == SumSeq([t \in 1 .. F |-> Amp(sig.frames[t]) * Amp(sig.frames[t])], F)
        rms_positive == sq > 0 /\ sig.gain[1] # 0
        top == MaxSeq([t \in 1 .. F |-> Amp(sig.frames[t])], F)
    IN  [rms_db |-> IF rms_positive THEN [value |-> "20*log10(rms)", finite |-> TRUE]
                    ELSE [value |-> "-inf", finite |-> FALSE],
         peak |-> RoundTo(Rat(top * sig.gain[1], AmpUnit * sig.gain[2]), 1000)]

\* recordings of 0 .. MaxTempoFrames analysis windows, each silent or a kick
TempoFrames == UNION { [1 .. n -> { Silence, KickHit }] : n \in 0 .. MaxTempoFrames }

\* the number of samples of a recording of F windows
SamplesOf(F) == IF F = 0 THEN n_fft \div 2 ELSE n_fft + (F - 1) * hop_length

BpmRanges == { [min_bpm |-> 60, max_bpm |-> 200], [min_bpm |-> 120, max_bpm |-> 120] }

InitTempo ==
    /\ t_in \in [frames : TempoFrames, sample_rate : { 8000, 44100 }, range : BpmRanges]
    /\ t_out = <<>>

\* the call estimate_bpm(audio, sample_rate, min_bpm, max_bpm) on the arguments drawn
CallEstimateBpm ==
    /\ t_out = <<>>
    /\ t_out' = << estimate_bpm([n |-> SamplesOf(Len(t_in.frames)), gain |-> <<1, 1>>,
                                 frames |-> t_in.frames],
                                t_in.sample_rate, t_in.range.min_bpm, t_in.range.max_bpm) >>
    /\ UNCHANGED <<t_in, q_in, q_out, m_in, m_out>>
    /\ UNCHANGED <<velVars, peakVars, envVars, pipeVars, cacheVars, designVars, srvVars>>

\* the arguments of a specification that never calls estimate_bpm
IdleTempo ==
    /\ t_in = [frames |-> <<>>, sample_rate |-> 44100,
               range |-> [min_bpm |-> 60, max_bpm |-> 200]]
    /\ t_out = <<>>

----------------------------------------------------------------------------
(* engine/pipeline.py: process_drum_audio, one action per stage *)

InputFiles == { "missing", "unreadable", "short", "beat", "silent", "loop8k" }

\* the stems argument: lists over the six stems the command line accepts and
\* one name outside them
StemLists ==
    { <<"kick">>, <<"hihat">>, <<"toms">>, <<"crash">>, <<"cowbell">>,
      <<"kick", "snare", "hihat">>, <<"crash", "ride">>, <<"snare", "toms">>,
      <<"kick", "cowbell">> }

RecognizedStems == { "kick", "snare", "hihat", "toms", "crash", "ride" }

\* the bpm argument: "auto" or a number
BpmArgs ==
    { [auto |-> TRUE, value |-> <<0, 1>>], [auto |-> FALSE, value |-> <<120, 1>>],
      [auto |-> FALSE, value |-> <<0, 1>>], [auto |-> FALSE, value |-> <<-120, 1>>] }

QuantizeArgs == { <<0, 1>>, <<1, 2>>, <<1, 1>>, <<3, 2>> }

Methods == { "auto", "demucs", "bandpass" }

Qualities == { "fast", "balanced", "best" }

NoError == [kind |-> "none", stage |-> "none", stem |-> "", names |-> {}]

\* no call made yet to estimate_bpm, quantize_onsets, create_drum_midi
NoCalls == [estimate_bpm |-> <<>>, quantize_onsets |-> <<>>, create_drum_midi |-> <<>>]

InitPipeline ==
    /\ args \in [input : InputFiles, stems : StemLists, bpm : BpmArgs, quantize : QuantizeArgs,
                 sep_config : [method : Methods, model : {"htdemucs"}, device : {"auto"},
                               quality : Qualities]]
    /\ demucs_available \in BOOLEAN
    /\ pc = "start"
    /\ dirs = {}
    /\ files = <<>>
    /\ stdout = <<>>
    /\ heap = <<>>
    /\ audio = 0
    /\ sample_rate = 0
    /\ detected_bpm = <<>>
    /\ separated = EmptyDict
    /\ sep_run = [called |-> FALSE, backend |-> "none", gated |-> {}]
    /\ sep_metadata = <<>>
    /\ effective_method = "none"
    /\ stem_i = 0
    /\ drum_onsets = EmptyDict
    /\ onsets_count = <<>>
    /\ stem_stats = <<>>
    /\ total_notes = 0
    /\ report = <<>>
    /\ error = NoError
    /\ calls = NoCalls
    /\ detected = <<>>

\* the state of a specification that never calls process_drum_audio
IdlePipeline ==
    /\ args = [input |-> "missing", stems |-> <<"kick">>,
               bpm |-> [auto |-> TRUE, value |-> <<0, 1>>], quantize |-> <<0, 1>>,
               sep_config |-> [method |-> "auto", model |-> "htdemucs", device |-> "auto",
                               quality |-> "balanced"]]
    /\ demucs_available = FALSE
    /\ pc = "idle"
    /\ dirs = {}
    /\ files = <<>>
    /\ stdout = <<>>
    /\ heap = <<>>
    /\ audio = 0
    /\ sample_rate = 0
    /\ detected_bpm = <<>>
    /\ separated = EmptyDict
    /\ sep_run = [called |-> FALSE, backend |-> "none", gated |-> {}]
    /\ sep_metadata = <<>>
    /\ effective_method = "none"
    /\ stem_i = 0
    /\ drum_onsets = EmptyDict
    /\ onsets_count = <<>>
    /\ stem_stats = <<>>
    /\ total_notes = 0
    /\ report = <<>>
    /\ error = NoError
    /\ calls = NoCalls
    /\ detected = <<>>

\* an exception leaves process_drum_audio.  There is no try/except in it: the
\* exception is the one the failing call raised, and names no stage and no
\* stem.  The fields stage and stem record where it was raised
Raise(kind, stage, stem) ==
    /\ pc' = "failed"
    /\ error' = [kind |-> kind, stage |-> stage, stem |-> stem, names |-> {}]

\* lines 39-47: the output directories are made, the config is built
Setup ==
    /\ pc = "start"
    /\ dirs' = { "output_dir", "output_dir/stems" }
    /\ pc' = "read"
    /\ UNCHANGED <<files, stdout, heap, audio, sample_rate, detected_bpm, separated, sep_run,
                   sep_metadata, effective_method, stem_i, drum_onsets, onsets_count,
                   stem_stats, total_notes, report, error, calls, detected>>
    /\ UNCHANGED <<velVars, peakVars, envVars, fnVars, cacheVars, designVars, srvVars>>

\* lines 49-51: read_audio
ReadAudio ==
    /\ pc = "read"
    /\ LET r == read_audio(args.input)
       IN  IF r.error # "none"
           THEN /\ Raise(r.error, "read", "")
                /\ UNCHANGED <<heap, audio, sample_rate>>
           ELSE /\ heap' = << r.audio >>
                /\ audio' = 1
                /\ sample_rate' = r.sr
                /\ pc' = "bpm"
                /\ UNCHANGED error
    /\ UNCHANGED <<dirs, files, stdout, detected_bpm, separated, sep_run, sep_metadata,
                   effective_method, stem_i, drum_onsets, onsets_count, stem_stats,
                   total_notes, report, calls, detected>>
    /\ UNCHANGED <<velVars, peakVars, envVars, fnVars, cacheVars, designVars, srvVars>>

\* the mutant that estimates the tempo whatever the bpm argument
ShouldEstimateAlways(bpm_arg) == TRUE

\* line 54: bpm == "auto"
ShouldEstimate(bpm_arg) == bpm_arg.auto

\* lines 53-57: the tempo is estimated on the full mix, or taken as given
ResolveBpm ==
    /\ pc = "bpm"
    /\ IF ShouldEstimate(args.bpm)
       THEN LET e == estimate_bpm(heap[audio], sample_rate, 60, 200)
            IN  /\ calls' = [calls EXCEPT !.estimate_bpm =
                                Append(@, [audio |-> audio, samples |-> heap[audio],
                                           sample_rate |-> sample_rate,
                                           after_separation |-> sep_run.called])]
                /\ IF e.error # "none"
                   THEN Raise(e.error, "tempo", "") /\ UNCHANGED detected_bpm
                   ELSE detected_bpm' = << e.bpm >> /\ pc' = "separate" /\ UNCHANGED error
       ELSE /\ detected_bpm' = << args.bpm.value >>
            /\ pc' = "separate"
            /\ UNCHANGED <<error, calls>>
    /\ UNCHANGED <<dirs, files, stdout, heap, audio, sample_rate, separated, sep_run,
                   sep_metadata, effective_method, stem_i, drum_onsets, onsets_count,
                   stem_stats, total_notes, report, detected>>
    /\ UNCHANGED <<velVars, peakVars, envVars, fnVars, cacheVars, designVars, srvVars>>

\* lines 74-79: the method written into the report
EffectiveMethod(config, avail) ==
    IF config.method = "auto"
    THEN (IF avail THEN "demucs" ELSE "bandpass")
    ELSE config.method

\* lines 59-79: separate_drums, its metadata and the effective method
Separate ==
    /\ pc = "separate"
    /\ LET cfg == args.sep_config
           r == separate_drums(heap, audio, sample_rate, args.stems, cfg.method, cfg,
                               demucs_available)
       IN  /\ heap' = r.heap
           /\ sep_run' = [called |-> TRUE, backend |-> r.backend, gated |-> r.gated]
           /\ stdout' = IF r.warned
                        THEN Append(stdout, "Warning: Demucs not available, falling back to bandpass")
                        ELSE stdout
           /\ IF r.error # "none"
              THEN /\ Raise(r.error, "separate", r.stem)
                   /\ UNCHANGED <<separated, sep_metadata, effective_method, stem_i>>
              ELSE /\ separated' = r.result
                   /\ sep_metadata' = << get_separation_metadata(cfg, demucs_available) >>
                   /\ effective_method' = EffectiveMethod(cfg, demucs_available)
                   /\ stem_i' = 1
                   /\ pc' = "stems"
                   /\ UNCHANGED error
    /\ UNCHANGED <<dirs, files, audio, sample_rate, detected_bpm, drum_onsets, onsets_count,
                   stem_stats, total_notes, report, calls, detected>>
    /\ UNCHANGED <<velVars, peakVars, envVars, fnVars, cacheVars, designVars, srvVars>>

\* the mutant that quantizes whenever there is an onset
ShouldQuantizeAlways(quantize, times) == Len(times) > 0

\* line 103: quantize > 0 and len(times) > 0
ShouldQuantize(quantize, times) == RLt(<<0, 1>>, quantize) /\ Len(times) > 0

\* lines 86-107: one round of the stem loop: the stem is written, measured,
\* its onsets are detected and, if asked for, quantized
ProcessStem ==
    /\ pc = "stems"
    /\ stem_i <= Len(separated.keys)
    /\ LET stem_name  == separated.keys[stem_i]
           stem_audio == heap[separated.val[stem_name]]
           d == detect_onsets_with_strength(stem_audio, sample_rate)
           quantizes == d.error = "none" /\ ShouldQuantize(args.quantize, d.times)
           q == IF quantizes
                THEN quantize_onsets(d.times, detected_bpm[1], 16, args.quantize)
                ELSE [error |-> "none", times |-> d.times]
       IN  /\ files' = (<<"stems", stem_name>> :> write_audio(stem_audio, sample_rate)) @@ files
           /\ stem_stats' = (stem_name :> StemStats(stem_audio)) @@ stem_stats
           /\ detected' = (stem_name :> d) @@ detected
           /\ calls' = IF quantizes
                       THEN [calls EXCEPT !.quantize_onsets =
                                Append(@, [stem |-> stem_name, onset_times |-> d.times,
                                           bpm |-> detected_bpm[1],
                                           strength |-> args.quantize])]
                       ELSE calls
           /\ IF d.error # "none"
              THEN /\ Raise(d.error, "onsets", stem_name)
                   /\ UNCHANGED <<drum_onsets, onsets_count, stem_i>>
              ELSE IF q.error # "none"
              THEN /\ Raise(q.error, "quantize", stem_name)
                   /\ UNCHANGED <<drum_onsets, onsets_count, stem_i>>
              ELSE /\ drum_onsets' = DictPut(drum_onsets, stem_name,
                                             [times |-> q.times, strengths |-> d.strengths])
                   /\ onsets_count' = (stem_name :> Len(q.times)) @@ onsets_count
                   /\ stem_i' = stem_i + 1
                   /\ UNCHANGED <<pc, error>>
    /\ UNCHANGED <<dirs, stdout, heap, audio, sample_rate, detected_bpm, separated, sep_run,
                   sep_metadata, effective_method, total_notes, report>>
    /\ UNCHANGED <<velVars, peakVars, envVars, fnVars, cacheVars, designVars, srvVars>>

\* lines 109-111: create_drum_midi over the onsets of all stems
GenerateMidi ==
    /\ pc = "stems"
    /\ stem_i > Len(separated.keys)
    /\ LET m == create_drum_midi(drum_onsets, detected_bpm[1])
       IN  /\ files' = IF m.written THEN (<<"drums.mid">> :> m.file[1]) @@ files ELSE files
           /\ calls' = [calls EXCEPT !.create_drum_midi =
                           Append(@, [drum_onsets |-> drum_onsets, bpm |-> detected_bpm[1]])]
           /\ IF m.error # "none"
              THEN Raise(m.error, "midi", "") /\ UNCHANGED total_notes
              ELSE total_notes' = m.total_notes /\ pc' = "report" /\ UNCHANGED error
    /\ UNCHANGED <<dirs, stdout, heap, audio, sample_rate, detected_bpm, separated, sep_run,
                   sep_metadata, effective_method, stem_i, drum_onsets, onsets_count,
                   stem_stats, report, detected>>
    /\ UNCHANGED <<velVars, peakVars, envVars, fnVars, cacheVars, designVars, srvVars>>

\* the mutant that writes the report of a run whose note encoding failed
ReportStageOrMidiFailed == pc = "report" \/ (pc = "failed" /\ error.stage = "midi")

\* lines 113-131 are reached when nothing before them has raised
ReportStage == pc = "report"

\* lines 113-131: the report is assembled, written to report.json and returned
WriteReport ==
    /\ ReportStage
    /\ LET r == [sample_rate |-> sample_rate,
                 duration |-> RoundTo(Rat(heap[audio].n, sample_rate), 1000),
                 bpm |-> RoundTo(detected_bpm[1], 10),
                 onsets_count |-> onsets_count,
                 total_midi_notes |-> total_notes,
                 stems |-> args.stems,
                 input_file |-> args.input,
                 separation |-> sep_metadata[1],
                 separation_method |-> effective_method,
                 stem_stats |-> stem_stats]
       IN  /\ report' = << r >>
           /\ files' = (<<"report.json">> :> r) @@ files
    /\ pc' = "done"
    /\ UNCHANGED <<dirs, stdout, heap, audio, sample_rate, detected_bpm, separated, sep_run,
                   sep_metadata, effective_method, stem_i, drum_onsets, onsets_count,
                   stem_stats, total_notes, error, calls, detected>>
    /\ UNCHANGED <<velVars, peakVars, envVars, fnVars, cacheVars, designVars, srvVars>>

----------------------------------------------------------------------------
(* server/main.py: the job server.  Its handlers and the process_job tasks   *)
(* are coroutines of one event loop: a step runs from one await to the next. *)

JobIds == 1 .. MaxJobs

NoResponse == [op |-> "none", job |-> 0, code |-> 0, status |-> "none", file |-> "none"]

InitServer ==
    /\ jobs = <<>>
    /\ tasks = [j \in JobIds |-> "none"]
    /\ disk = [j \in JobIds |-> "none"]
    /\ response = NoResponse

\* lines 141-200: create_job.  A refused upload (not a WAV name, too large)
\* gets status 400 and creates nothing; an accepted one gets a fresh id, a
\* pending record and a process_job task
create_job ==
    /\ \E j \in JobIds :
          /\ j \notin DOMAIN jobs
          /\ \A k \in JobIds : k < j => k \in DOMAIN jobs
          /\ \E accepted \in BOOLEAN :
                IF accepted
                THEN /\ jobs' = jobs @@ (j :> [job_id |-> j, status |-> "pending",
                                               created_at |-> "now", completed_at |-> "None",
                                               error |-> "None", result |-> "None"])
                     /\ tasks' = [tasks EXCEPT ![j] = "scheduled"]
                     /\ response' = [op |-> "create_job", job |-> j, code |-> 200,
                                     status |-> "pending", file |-> "none"]
                ELSE /\ response' = [op |-> "create_job", job |-> 0, code |-> 400,
                                     status |-> "none", file |-> "none"]
                     /\ UNCHANGED <<jobs, tasks>>
    /\ UNCHANGED disk
    /\ UNCHANGED <<velVars, peakVars, envVars, pipeVars, fnVars, cacheVars, designVars>>

\* the mutant that leaves the status alone when the work is handed to the pool
process_job_start_silent(j) ==
    /\ tasks[j] = "scheduled"
    /\ \E mkdir_ok \in BOOLEAN :
          tasks' = [tasks EXCEPT ![j] = IF mkdir_ok THEN "awaiting" ELSE "died"]
    /\ UNCHANGED <<jobs, disk, response>>
    /\ UNCHANGED <<velVars, peakVars, envVars, pipeVars, fnVars, cacheVars, designVars>>

\* lines 87-103: process_job up to its await.  output_dir.mkdir stands before
\* the try: if it raises, the exception ends the task and the record is not
\* touched; otherwise the status becomes processing and the work is handed to
\* the process pool
process_job_start(j) ==
    /\ tasks[j] = "scheduled"
    /\ \E mkdir_ok \in BOOLEAN :
          IF mkdir_ok
          THEN /\ jobs' = [jobs EXCEPT ![j].status = "processing"]
               /\ tasks' = [tasks EXCEPT ![j] = "awaiting"]
          ELSE /\ tasks' = [tasks EXCEPT ![j] = "died"]
               /\ UNCHANGED jobs
    /\ UNCHANGED <<disk, response>>
    /\ UNCHANGED <<velVars, peakVars, envVars, pipeVars, fnVars, cacheVars, designVars>>

\* the mutant that marks the job completed before its result is stored
process_job_finish_early(j) ==
    /\ tasks[j] = "awaiting"
    /\ jobs' = [jobs EXCEPT ![j].status = "completed"]
    /\ tasks' = [tasks EXCEPT ![j] = "finished"]
    /\ UNCHANGED <<disk, response>>
    /\ UNCHANGED <<velVars, peakVars, envVars, pipeVars, fnVars, cacheVars, designVars>>

\* lines 96-131: process_job from the return of the pool to its end, with no
\* await in between.  The pool gives the report or raises; the archive is
\* written in full or its writing raises
process_job_finish(j) ==
    /\ tasks[j] = "awaiting"
    /\ \E outcome \in { "result", "raised" }, zip_ok \in BOOLEAN :
          IF outcome = "raised"
          THEN /\ jobs' = [jobs EXCEPT ![j].status = "failed", ![j].error = "str(e)",
                                       ![j].completed_at = "now"]
               /\ UNCHANGED disk
          ELSE IF ~zip_ok
          THEN /\ disk' = [disk EXCEPT ![j] = "partial"]
               /\ jobs' = [jobs EXCEPT ![j].status = "failed", ![j].error = "str(e)",
                                       ![j].completed_at = "now"]
          ELSE /\ disk' = [disk EXCEPT ![j] = "complete"]
               /\ jobs' = [jobs EXCEPT ![j].status = "completed", ![j].completed_at = "now",
                                       ![j].result = "report"]
    /\ tasks' = [tasks EXCEPT ![j] = "finished"]
    /\ UNCHANGED response
    /\ UNCHANGED <<velVars, peakVars, envVars, pipeVars, fnVars, cacheVars, designVars>>

\* lines 203-209: get_job
get_job(j) ==
    /\ response' = IF j \notin DOMAIN jobs
                   THEN [op |-> "get_job", job |-> j, code |-> 404, status |-> "none",
                         file |-> "none"]
                   ELSE [op |-> "get_job", job |-> j, code |-> 200, status |-> jobs[j].status,
                         file |-> "none"]
    /\ UNCHANGED <<jobs, tasks, disk>>
    /\ UNCHANGED <<velVars, peakVars, envVars, pipeVars, fnVars, cacheVars, designVars>>

\* lines 212-230: download_job
download_job(j) ==
    /\ response' = IF j \notin DOMAIN jobs
                   THEN [op |-> "download_job", job |-> j, code |-> 404, status |-> "none",
                         file |-> "none"]
                   ELSE IF jobs[j].status # "completed"
                   THEN [op |-> "download_job", job |-> j, code |-> 400,
                         status |-> jobs[j].status, file |-> "none"]
                   ELSE IF disk[j] = "none"
                   THEN [op |-> "download_job", job |-> j, code |-> 404,
                         status |-> jobs[j].status, file |-> "none"]
                   ELSE [op |-> "download_job", job |-> j, code |-> 200,
                         status |-> jobs[j].status, file |-> disk[j]]
    /\ UNCHANGED <<jobs, tasks, disk>>
    /\ UNCHANGED <<velVars, peakVars, envVars, pipeVars, fnVars, cacheVars, designVars>>

\* the state of a specification without the server
IdleServer ==
    /\ jobs = <<>>
    /\ tasks = [j \in JobIds |-> "none"]
    /\ disk = [j \in JobIds |-> "none"]
    /\ response = NoResponse

----------------------------------------------------------------------------
(* Specifications *)

IdleFns == IdleQuant /\ IdleMidi /\ IdleTempo

IdleRest == IdleDesign /\ IdleServer

InitSpecVel == InitVel /\ IdlePeaks /\ IdlePipeline /\ IdleFns /\ IdleCache /\ IdleRest

NextVel == CallVelocity

SpecVel == InitSpecVel /\ [][NextVel]_vars

InitSpecPeaks == InitVel /\ InitPeaks /\ IdlePipeline /\ IdleFns /\ IdleCache /\ IdleRest

NextPeaks == CallPickPeaks

SpecPeaks == InitSpecPeaks /\ [][NextPeaks]_vars

Init == InitVel /\ IdlePeaks /\ InitPipeline /\ IdleFns /\ IdleCache /\ IdleRest

Next ==
    \/ Setup
    \/ ReadAudio
    \/ ResolveBpm
    \/ Separate
    \/ ProcessStem
    \/ GenerateMidi
    \/ WriteReport

Spec == Init /\ [][Next]_vars

InitSpecQuant ==
    InitVel /\ IdlePeaks /\ IdlePipeline /\ InitQuant /\ IdleMidi /\ IdleTempo /\ IdleCache
        /\ IdleRest

NextQuant == CallQuantize

SpecQuant == InitSpecQuant /\ [][NextQuant]_vars

InitSpecTempo ==
    InitVel /\ IdlePeaks /\ IdlePipeline /\ IdleQuant /\ IdleMidi /\ InitTempo /\ IdleCache
        /\ IdleRest

NextTempo == CallEstimateBpm

SpecTempo == InitSpecTempo /\ [][NextTempo]_vars

InitSpecMidi ==
    InitVel /\ IdlePeaks /\ IdlePipeline /\ IdleQuant /\ InitMidi /\ IdleTempo /\ IdleCache
        /\ IdleRest

NextMidi == CallCreateDrumMidi

SpecMidi == InitSpecMidi /\ [][NextMidi]_vars

InitSpecCache == InitVel /\ IdlePeaks /\ IdlePipeline /\ IdleFns /\ InitCache /\ IdleRest

NextCache ==
    \E t \in Callers :
        \/ CallLoadModelAlone(t)
        \/ CheckCache(t)
        \/ GetModel(t)
        \/ ToDevice(t)
        \/ SetModelName(t)

SpecCache == InitSpecCache /\ [][NextCache]_vars

NextCacheConc ==
    \E t \in Callers :
        \/ CallLoadModel(t)
        \/ CheckCache(t)
        \/ GetModel(t)
        \/ ToDevice(t)
        \/ SetModelName(t)

SpecCacheConc == InitSpecCache /\ [][NextCacheConc]_vars

InitSpecFilter ==
    InitVel /\ IdlePeaks /\ IdlePipeline /\ IdleFns /\ IdleCache /\ InitDesign /\ IdleServer

NextFilter == CallDesign

SpecFilter == InitSpecFilter /\ [][NextFilter]_vars

InitSpecServer ==
    InitVel /\ IdlePeaks /\ IdlePipeline /\ IdleFns /\ IdleCache /\ IdleDesign /\ InitServer

NextServer ==
    \/ create_job
    \/ \E j \in JobIds : process_job_start(j)
    \/ \E j \in JobIds : process_job_finish(j)
    \/ \E j \in JobIds : get_job(j)
    \/ \E j \in JobIds : download_job(j)

SpecServer == InitSpecServer /\ [][NextServer]_vars

\* every process_job task is run by the event loop, and the pool finishes or
\* fails every task submitted to it
SpecServerLive ==
    /\ InitSpecServer
    /\ [][NextServer]_vars
    /\ \A j \in JobIds : WF_vars(process_job_start(j)) /\ WF_vars(process_job_finish(j))

----------------------------------------------------------------------------
(* Claims about strength_to_velocity (SpecVel) *)

\* C8 as stated: strength_to_velocity(s) equals round(1 + s * 126) clamped to
\* [1,127] for every strength s in [0,1]
C8_RoundedVelocity ==
    (velocity # <<>> /\ strength \in 0 .. StrengthDen) =>
        velocity[1] = Clip(RoundHalfEven(StrengthDen + strength * 126, StrengthDen), 1, 127)

\* C8 amended: strength_to_velocity(s) equals 1 + s * 126 with its fraction
\* dropped (the floor, not the nearest integer), clamped to [1,127], for every
\* strength s in [0,1]
C8_TruncatedVelocity ==
    (velocity # <<>> /\ strength \in 0 .. StrengthDen) =>
        /\ velocity[1] \in 1 .. 127
        /\ velocity[1] * StrengthDen <= StrengthDen + strength * 126
        /\ StrengthDen + strength * 126 < (velocity[1] + 1) * StrengthDen

\* a strength in [0,1] whose exact value 1 + s * 126 lies above the half, so that
\* rounding and truncating differ
C8_Witness ==
    /\ velocity # <<>>
    /\ strength \in 1 .. (StrengthDen - 1)
    /\ 2 * ((strength * 126) % StrengthDen) > StrengthDen
    /\ velocity[1] = 1 + (strength * 126) \div StrengthDen

\* C9: strength_to_velocity returns 1 for strength 0.0 and 127 for strength
\* 1.0, is monotonically non-decreasing over [0,1], and returns an integer in
\* [1,127] for every strength, also below 0 and above 1
C9_VelocityRange ==
    velocity # <<>> =>
        /\ velocity[1] \in 1 .. 127
        /\ strength = 0 => velocity[1] = 1
        /\ strength = StrengthDen => velocity[1] = 127
        /\ (/\ prev_velocity # <<>>
            /\ prev_strength \in 0 .. StrengthDen
            /\ strength \in 0 .. StrengthDen
            /\ prev_strength <= strength) => prev_velocity[1] <= velocity[1]

\* a call below 0 followed by a call above 1: both velocities are at the ends
\* of the range
C9_Witness ==
    /\ prev_velocity = <<1>>
    /\ prev_strength < 0
    /\ velocity = <<127>>
    /\ strength > StrengthDen

----------------------------------------------------------------------------
(* Claims about pick_peaks (SpecPeaks) *)

\* C10 as stated: pick_peaks never reports two peaks closer in time than
\* min_distance_sec, for every envelope, frame spacing dt and min_distance_sec
C10_MinDistance ==
    pk_in.called =>
        \A i \in pk_out : \A j \in pk_out :
            i < j => (j - i) * pk_in.dt >= pk_in.min_distance

----------------------------------------------------------------------------
(* Claims about process_drum_audio and the separation (Spec) *)

Returned == report # <<>>

\* separate_drums has returned a result to process_drum_audio
SeparationReturned == sep_run.called /\ error.stage # "separate"

FallbackWarning == "Warning: Demucs not available, falling back to bandpass"

Printed(line) == \E i \in 1 .. Len(stdout) : stdout[i] = line

\* C1 as stated: for every requested method (auto, demucs, bandpass) and
\* every availability of the ML backend, the separation method recorded in
\* the report is the backend that produced the stems of the run
C1_ReportedMethodRan ==
    Returned => report[1].separation_method = sep_run.backend

\* C2: with method "auto", separate_drums uses the ML backend when it is
\* available and otherwise falls back to the band-pass separation without a
\* word, and never raises because the ML backend is absent
C2_AutoFallback ==
    (sep_run.called /\ args.sep_config.method = "auto") =>
        /\ demucs_available => sep_run.backend = "demucs"
        /\ ~demucs_available => (sep_run.backend = "bandpass" /\ stdout = <<>>)
        /\ error.kind # "ImportError"

\* method "auto" without the ML backend: the band-pass stems came back
C2_Witness ==
    /\ SeparationReturned
    /\ args.sep_config.method = "auto"
    /\ ~demucs_available
    /\ sep_run.backend = "bandpass"
    /\ Len(separated.keys) = 3

\* what separate_drums_bandpass gives for the arguments of the run
BandpassOfRun ==
    separate_drums_bandpass(<< heap[audio] >>, 1, sample_rate, args.stems,
                            args.sep_config.quality)

\* C3: with method "demucs" and the ML backend unavailable, separate_drums
\* prints a warning and returns the stems of the band-pass separation; the
\* absence of the backend raises nothing and does not fail the run
C3_ExplicitFallback ==
    (sep_run.called /\ args.sep_config.method = "demucs" /\ ~demucs_available) =>
        /\ Printed(FallbackWarning)
        /\ sep_run.backend = "bandpass"
        /\ error.kind # "ImportError"
        /\ error.stage = "separate" => error.kind = BandpassOfRun.error
        /\ BandpassOfRun.error = "none" =>
              /\ SeparationReturned
              /\ separated = BandpassOfRun.result
              /\ \A i \in 1 .. Len(separated.keys) :
                    heap[separated.val[separated.keys[i]]]
                        = BandpassOfRun.heap[separated.val[separated.keys[i]]]

\* method "demucs" without the ML backend: warned, and the run went on to its report
C3_Witness ==
    /\ args.sep_config.method = "demucs"
    /\ ~demucs_available
    /\ Printed(FallbackWarning)
    /\ sep_run.backend = "bandpass"
    /\ pc = "done"
    /\ Len(separated.keys) = 3

\* the configurations and inputs the claim wants refused
InvalidRequest ==
    \/ \E i \in 1 .. Len(args.stems) : args.stems[i] \notin RecognizedStems
    \/ ~args.bpm.auto /\ args.bpm.value[1] <= 0
    \/ RLt(args.quantize, <<0, 1>>) \/ RLt(<<1, 1>>, args.quantize)
    \/ args.input = "missing"

\* C4 as stated: process_drum_audio called with an unrecognized stem name, a
\* non-positive explicit BPM, an out-of-range quantize strength or a missing
\* input file fails before any separation runs and before any stem file,
\* MIDI file or report is written
C4_ValidationFirst ==
    InvalidRequest =>
        /\ ~sep_run.called
        /\ files = <<>>
        /\ ~Returned

RECURSIVE SumOnsets(_, _)
SumOnsets(stems, i) ==
    IF i = 0 THEN 0
    ELSE SumOnsets(stems, i - 1)
            + (IF stems[i] \in DOMAIN onsets_count THEN onsets_count[stems[i]] ELSE 0)

\* C5 as stated: for every run over requested stems drawn from kick, snare,
\* hihat, toms, crash, ride, total_midi_notes in the report equals the sum of
\* onsets_count over all requested stems
C5_NotesMatchOnsets ==
    (Returned /\ \A i \in 1 .. Len(args.stems) : args.stems[i] \in RecognizedStems) =>
        report[1].total_midi_notes = SumOnsets(args.stems, Len(args.stems))

\* C6 as stated: the mapping returned by the separation holds exactly one
\* signal for each requested stem name (kick, snare, hihat, toms, crash,
\* ride), whichever backend separates
C6_OneSignalPerStem ==
    (SeparationReturned /\ \A i \in 1 .. Len(args.stems) : args.stems[i] \in RecognizedStems) =>
        /\ { separated.keys[i] : i \in 1 .. Len(separated.keys) }
              = { args.stems[i] : i \in 1 .. Len(args.stems) }
        /\ Len(separated.keys) = Len(args.stems)

SameSamples(a, b) == a.n = b.n /\ a.frames = b.frames /\ a.gain = b.gain

\* C7: separate_drums_bandpass never raises on a stem name it has no
\* frequency model for: the result maps the name to a copy whose samples equal
\* the input's, in a buffer distinct from the input and from the buffer of
\* every other stem
C7_PassThroughCopy ==
    (sep_run.called /\ sep_run.backend = "bandpass") =>
        /\ error.stage = "separate" => error.stem \in FilteredStems
        /\ SeparationReturned =>
              \A i \in 1 .. Len(args.stems) :
                  args.stems[i] \notin FilteredStems =>
                      /\ DictHas(separated, args.stems[i])
                      /\ SameSamples(heap[separated.val[args.stems[i]]], heap[audio])
                      /\ separated.val[args.stems[i]] # audio
                      /\ \A j \in 1 .. Len(separated.keys) :
                            separated.keys[j] # args.stems[i] =>
                                separated.val[separated.keys[j]] # separated.val[args.stems[i]]

\* two stems without a frequency model came back from the band-pass
\* separation, each in a buffer of its own
C7_Witness ==
    /\ SeparationReturned
    /\ sep_run.backend = "bandpass"
    /\ args.stems = << "crash", "ride" >>
    /\ separated.keys = << "crash", "ride" >>
    /\ separated.val["crash"] # separated.val["ride"]
    /\ heap[audio].n > 0

----------------------------------------------------------------------------
(* Claims about quantize_onsets (SpecQuant) and quantization in the run (Spec) *)

\* the grid spacing (60 / bpm) / (grid_division / 4), in seconds
GridSpacing(bpm, grid_division) == Rat(60 * bpm[2] * 4, bpm[1] * grid_division)

\* t is an integer multiple of g
IsMultipleOf(t, g) == (t[1] * g[2]) % (t[2] * g[1]) = 0

\* C11: quantize_onsets with strength 0 returns the onset times unchanged,
\* and with strength 1 returns times that are each an integer multiple of the
\* grid spacing (60/bpm)/(grid_division/4), for every onset list and positive bpm
C11_QuantizeEnds ==
    q_out # <<>> =>
        /\ q_out[1].error = "none"
        /\ Len(q_out[1].times) = Len(q_in.onset_times)
        /\ q_in.strength = <<0, 1>> => q_out[1].times = q_in.onset_times
        /\ q_in.strength = <<1, 1>> =>
              \A k \in 1 .. Len(q_out[1].times) :
                  IsMultipleOf(q_out[1].times[k], GridSpacing(q_in.bpm, q_in.grid_division))

\* a full-strength call that moved an onset lying off the grid onto it
C11_Witness ==
    /\ q_out # <<>>
    /\ q_in.strength = <<1, 1>>
    /\ \E k \in 1 .. Len(q_in.onset_times) :
          /\ ~IsMultipleOf(q_in.onset_times[k], GridSpacing(q_in.bpm, q_in.grid_division))
          /\ q_out[1].times[k] # q_in.onset_times[k]

\* the stems whose onsets process_drum_audio has stored
StoredStems == { drum_onsets.keys[i] : i \in 1 .. Len(drum_onsets.keys) }

\* C12: in process_drum_audio a quantize strength of 0 disables quantization:
\* the quantizer is called for no stem and the note encoder is given exactly
\* the detected times; for any strength, quantization leaves the number of
\* onsets and their strengths as detected
C12_QuantizeOff ==
    /\ args.quantize = <<0, 1>> =>
          /\ calls.quantize_onsets = <<>>
          /\ \A s \in StoredStems : drum_onsets.val[s].times = detected[s].times
          /\ \A i \in 1 .. Len(calls.create_drum_midi) :
                \A s \in StoredStems :
                    calls.create_drum_midi[i].drum_onsets.val[s].times = detected[s].times
    /\ \A s \in StoredStems :
          /\ Len(drum_onsets.val[s].times) = Len(detected[s].times)
          /\ drum_onsets.val[s].strengths = detected[s].strengths
          /\ onsets_count[s] = Len(detected[s].times)

\* a run with quantize 0 that detected onsets and gave them to the note encoder
C12_Witness ==
    /\ args.quantize = <<0, 1>>
    /\ Len(calls.create_drum_midi) = 1
    /\ \E s \in StoredStems : Len(detected[s].times) > 0
    /\ pc = "done"

----------------------------------------------------------------------------
(* Claims about create_drum_midi (SpecMidi) *)

\* the General MIDI percussion pitches
PercussionPitch ==
    [kick |-> 36, snare |-> 38, hihat |-> 42, hihat_closed |-> 42, hihat_open |-> 46,
     tom_low |-> 45, tom_mid |-> 47, tom_high |-> 50, crash |-> 49, ride |-> 51]

\* the pitches of the notes of the first i drums of the dict d, one per onset
RECURSIVE ExpectedPitches(_, _)
ExpectedPitches(d, i) ==
    IF i = 0 THEN <<>>
    ELSE ExpectedPitches(d, i - 1)
            \o (IF d.keys[i] \in DOMAIN PercussionPitch
                THEN [k \in 1 .. Len(d.val[d.keys[i]].times) |-> PercussionPitch[d.keys[i]]]
                ELSE <<>>)

\* C13: create_drum_midi gives each stem the pitch of the GM percussion map
\* (kick 36, snare 38, hihat 42, hihat_closed 42, hihat_open 46, tom_low/mid/
\* high 45/47/50, crash 49, ride 51) and skips, without raising, every stem
\* name absent from the map, which adds nothing to the returned note count
C13_GMPitches ==
    m_out # <<>> =>
        LET d      == m_in.drum_onsets
            want   == ExpectedPitches(d, Len(d.keys))
            events == IF m_out[1].written THEN m_out[1].file[1].events ELSE <<>>
        IN  /\ m_out[1].error = "none"
            /\ m_out[1].total_notes = Len(want)
            /\ [k \in 1 .. Len(events) |-> events[k].pitch] = want

\* a call with onsets of a drum of the map and onsets of a name outside it
C13_Witness ==
    /\ m_out # <<>>
    /\ Len(m_in.drum_onsets.keys) = 2
    /\ m_in.drum_onsets.keys[1] \notin DOMAIN PercussionPitch
    /\ m_in.drum_onsets.keys[2] \in DOMAIN PercussionPitch
    /\ \A i \in 1 .. 2 : Len(m_in.drum_onsets.val[m_in.drum_onsets.keys[i]].times) > 0
    /\ m_out[1].total_notes > 0
    /\ m_out[1].written

----------------------------------------------------------------------------
(* Claims about the model cache (SpecCache, SpecCacheConc) *)

\* the loads made for the key (model name, device)
LoadsOfKey(name, device) ==
    { i \in 1 .. Len(loads) : loads[i].model_name = name /\ loads[i].asked_device = device }

\* C14 as stated: the model cache is keyed by model name and device: a model
\* is loaded exactly once per key, on first use, every later call with the
\* key reuses it, and each call is served the model loaded for its own key
C14_CachePerKey ==
    /\ \A name \in ModelNames, device \in Devices : Cardinality(LoadsOfKey(name, device)) <= 1
    /\ \A t \in Callers :
          thr[t].pc = "returned" =>
              /\ thr[t].served \in LoadsOfKey(thr[t].model_name, thr[t].device)
              /\ loads[thr[t].served].device = thr[t].device

\* C15 as stated: when several callers invoke the ML separation concurrently
\* for one model and device, at most one load of that model is in progress at
\* any time and no model is loaded twice for the key
C15_OneLoadAtATime ==
    \A name \in ModelNames, device \in Devices :
        /\ Cardinality({ t \in Callers : /\ thr[t].pc = "loading"
                                         /\ thr[t].model_name = name
                                         /\ thr[t].device = device }) <= 1
        /\ Cardinality(LoadsOfKey(name, device)) <= 1

----------------------------------------------------------------------------
(* Claims about failures, tempo and gating in the run (Spec, SpecTempo) *)

\* C16: if a stage of process_drum_audio fails after the input was read
\* (tempo, separation, stem persistence, onset detection, quantization, note
\* encoding), the run aborts with the error and no report is emitted:
\* report.json is not written and no report is returned
C16_NoReportOnFailure ==
    (error.kind # "none" /\ error.stage # "read") =>
        /\ pc = "failed"
        /\ report = <<>>
        /\ <<"report.json">> \notin DOMAIN files

\* the note encoder failed after the stems were written: no report
C16_Witness ==
    /\ pc = "failed"
    /\ error.stage = "midi"
    /\ \E s \in StoredStems : <<"stems", s>> \in DOMAIN files
    /\ report = <<>>

\* the stages that run once per stem
PerStemStages == { "onsets", "quantize" }

\* C17 as stated: a stage failure inside process_drum_audio surfaces as one
\* top-level error that identifies the failing stage and, for the per-stem
\* stages, the failing stem
C17_ErrorNamesStage ==
    (pc = "failed" /\ error.stage # "read") =>
        /\ error.stage \in error.names
        /\ error.stage \in PerStemStages => error.stem \in error.names

\* x rounded to one decimal is r
IsRoundedTo1Decimal(r, x) ==
    /\ (10 * r[1]) % r[2] = 0
    /\ RLe(RSub(x, r), <<1, 20>>)
    /\ RLe(RSub(r, x), <<1, 20>>)

\* C18: the BPM is resolved once per run, before the separation: an explicit
\* value is used as given, and only for bpm "auto" the tempo estimator runs,
\* exactly once and on the unseparated full mix; the resolved value feeds the
\* quantizer for every stem, the note encoder and, rounded to one decimal,
\* the report
C18_BpmResolvedOnce ==
    /\ ~args.bpm.auto =>
          /\ calls.estimate_bpm = <<>>
          /\ detected_bpm # <<>> => detected_bpm[1] = args.bpm.value
    /\ args.bpm.auto =>
          /\ Len(calls.estimate_bpm) = (IF audio # 0 /\ pc # "bpm" THEN 1 ELSE 0)
          /\ \A i \in 1 .. Len(calls.estimate_bpm) :
                /\ calls.estimate_bpm[i].audio = audio
                /\ calls.estimate_bpm[i].samples = read_audio(args.input).audio
                /\ ~calls.estimate_bpm[i].after_separation
    /\ sep_run.called => detected_bpm # <<>>
    /\ \A i \in 1 .. Len(calls.quantize_onsets) :
          calls.quantize_onsets[i].bpm = detected_bpm[1]
    /\ \A i \in 1 .. Len(calls.create_drum_midi) :
          calls.create_drum_midi[i].bpm = detected_bpm[1]
    /\ Returned => IsRoundedTo1Decimal(report[1].bpm, detected_bpm[1])

\* a run with bpm "auto" whose estimated tempo fed the quantizer, the encoder
\* and the report
C18_Witness ==
    /\ args.bpm.auto
    /\ Returned
    /\ Len(calls.estimate_bpm) = 1
    /\ Len(calls.quantize_onsets) > 0
    /\ Len(calls.create_drum_midi) = 1
    /\ detected_bpm[1] # <<120, 1>>

\* the envelope estimate_bpm works on has one frame less than the recording
EnvelopeFrames == Len(t_in.frames) - 1

\* the lag range of estimate_bpm after clamping, dt being hop_length / sample_rate
ClampedMinLag == Max2(1, (60 * t_in.sample_rate) \div (t_in.range.max_bpm * 512))

ClampedMaxLag ==
    Min2(EnvelopeFrames - 1, (60 * t_in.sample_rate) \div (t_in.range.min_bpm * 512))

\* C19: estimate_bpm returns exactly the fallback 120.0 whenever the envelope
\* has fewer than 10 frames, the clamped lag range is degenerate (min_lag >=
\* max_lag), or the search region is empty
C19_TempoFallback ==
    (t_out # <<>> /\ t_out[1].error = "none") =>
        ((EnvelopeFrames < 10 \/ ClampedMinLag >= ClampedMaxLag) => t_out[1].bpm = <<120, 1>>)

\* an envelope of nine frames with two kicks, over which the lag range is not
\* degenerate: the fallback came back
C19_Witness ==
    /\ t_out # <<>>
    /\ t_out[1].error = "none"
    /\ EnvelopeFrames = 9
    /\ ClampedMinLag < ClampedMaxLag
    /\ \E i \in 1 .. Len(t_in.frames) : t_in.frames[i] # Silence
    /\ t_out[1].bpm = <<120, 1>>

\* C20 as stated: for the quality presets balanced and best the DSP
\* separator applies the noise gate to every filtered stem it produces (kick,
\* snare, hihat and toms); for fast it applies the gate to none
C20_GateEveryFilteredStem ==
    (SeparationReturned /\ sep_run.backend = "bandpass") =>
        sep_run.gated =
            (IF args.sep_config.quality \in { "balanced", "best" }
             THEN { args.stems[i] : i \in 1 .. Len(args.stems) }
                      \cap { "kick", "snare", "hihat", "toms" }
             ELSE {})

----------------------------------------------------------------------------
(* Claims about the filter designs (SpecFilter) and the stems (Spec) *)

\* C21 as stated: for every positive sample rate and every stem filter
\* (lowpass 150 Hz, bandpass 150-4000 Hz, bandpass 80-500 Hz, highpass 5000
\* Hz) the normalized cutoff or band edges handed to the Butterworth design lie
\* strictly between 0 and 1, and the low edge of a band-pass lies strictly
\* below its high edge
C21_CutoffsInRange ==
    d_out # <<>> =>
        LET wn == d_out[1].wn
        IN  /\ \A i \in 1 .. Len(wn) : RLt(<<0, 1>>, wn[i]) /\ RLt(wn[i], <<1, 1>>)
            /\ Len(wn) = 2 => RLt(wn[1], wn[2])

\* C22 as stated: the report of every completed run is a JSON-compatible
\* record: every numeric field, each stem's rms_db and peak included, is a
\* finite number, also when a separated stem is completely silent
C22_FiniteReport ==
    Returned =>
        \A s \in DOMAIN report[1].stem_stats :
            /\ report[1].stem_stats[s].rms_db.finite
            /\ report[1].stem_stats[s].peak[2] > 0

\* the stem files written so far
StemFiles == { f \in DOMAIN files : Len(f) = 2 }

\* C23: every sample of every persisted stem lies in [-1.0, 1.0] whatever the
\* amplitude of the separated signal given to write_audio, and the stem is
\* written at the sample rate of the input
C23_StemsClipped ==
    \A f \in StemFiles :
        /\ files[f].sample_rate = read_audio(args.input).sr
        /\ \A t \in 1 .. Len(files[f].peaks) :
              /\ RLe(<<-1, 1>>, files[f].peaks[t])
              /\ RLe(files[f].peaks[t], <<1, 1>>)

\* a stem whose separated signal exceeds full scale has been written
C23_Witness ==
    \E s \in StoredStems :
        /\ <<"stems", s>> \in StemFiles
        /\ \E t \in 1 .. Len(heap[separated.val[s]].frames) :
              /\ RLt(<<1, 1>>, FramePeak(heap[separated.val[s]], t))
              /\ files[<<"stems", s>>].peaks[t] = <<1, 1>>

\* C24 as stated: every stem returned by the separation has exactly as many
\* samples as the input signal, for every quality preset and, on the ML path,
\* for every pair of input sample rate and model sample rate
C24_StemLengths ==
    SeparationReturned =>
        \A i \in 1 .. Len(separated.keys) :
            heap[separated.val[separated.keys[i]]].n = heap[audio].n

----------------------------------------------------------------------------
(* Claims about pick_peaks (SpecPeaks), the MIDI file (SpecMidi) and the     *)
(* tempo (SpecTempo)                                                         *)

\* the frames of the envelope given to pick_peaks that lie on a peak (higher
\* than what precedes and what follows it) at or above the threshold
QualifyingFrames ==
    LET x == pk_in.envelope
    IN  { i \in 2 .. (Len(x) - 1) :
            /\ RLe(pk_in.threshold, <<x[i], MaxLevel>>)
            /\ \E l \in 2 .. i : \E r \in i .. (Len(x) - 1) :
                  /\ \A k \in l .. r : x[k] = x[i]
                  /\ x[l - 1] < x[i]
                  /\ x[r + 1] < x[i] }

\* C25: pick_peaks returns an empty onset sequence, and no error, when the
\* envelope has fewer than 3 frames or no frame qualifies as a peak
C25_NoPeaksNoError ==
    (pk_in.called /\ (Len(pk_in.envelope) < 3 \/ QualifyingFrames = {})) => pk_out = {}

\* an envelope of three frames or more with a peak below the threshold only
C25_Witness ==
    /\ pk_in.called
    /\ Len(pk_in.envelope) >= 3
    /\ QualifyingFrames = {}
    /\ \E i \in 2 .. (Len(pk_in.envelope) - 1) :
          /\ pk_in.envelope[i - 1] < pk_in.envelope[i]
          /\ pk_in.envelope[i + 1] < pk_in.envelope[i]
    /\ pk_out = {}

\* the times in beats of the notes of the first i drums of the dict d
RECURSIVE ExpectedBeats(_, _, _)
ExpectedBeats(d, bpm, i) ==
    IF i = 0 THEN <<>>
    ELSE ExpectedBeats(d, bpm, i - 1)
            \o (IF d.keys[i] \in DOMAIN PercussionPitch
                THEN [k \in 1 .. Len(d.val[d.keys[i]].times) |->
                        Rat(d.val[d.keys[i]].times[k][1] * bpm[1],
                            d.val[d.keys[i]].times[k][2] * bpm[2] * 60)]
                ELSE <<>>)

C27_BpmInRange ==
    (t_out # <<>> /\ t_out[1].error = "none" /\ t_out[1].bpm # <<120, 1>>) =>
        /\ t_out[1].bpm[1] > 0
        /\ RLe(<<t_in.range.min_bpm, 1>>, t_out[1].bpm)
        /\ RLe(t_out[1].bpm, <<t_in.range.max_bpm, 1>>)

----------------------------------------------------------------------------
(* Claims about the job server (SpecServer, SpecServerLive) *)

StatusMoves ==
    { <<"pending", "processing">>, <<"processing", "completed">>, <<"processing", "failed">> }

Terminal == { "completed", "failed" }

\* C28: a job's status only moves pending -> processing -> completed or
\* pending -> processing -> failed; completed and failed are terminal and a
\* job in them never changes; processing one job never changes the record of
\* another, under any interleaving of create_job, process_job, get_job and
\* download_job
C28_StatusMoves ==
    [][ /\ DOMAIN jobs \subseteq DOMAIN jobs'
        /\ \A j \in DOMAIN jobs :
              /\ jobs'[j].status = jobs[j].status
                    \/ <<jobs[j].status, jobs'[j].status>> \in StatusMoves
              /\ jobs[j].status \in Terminal => jobs'[j] = jobs[j]
              /\ jobs'[j] # jobs[j] =>
                    /\ tasks'[j] # tasks[j]
                    /\ \A k \in DOMAIN jobs : k # j => jobs'[k] = jobs[k]
        /\ \A j \in (DOMAIN jobs') \ (DOMAIN jobs) : jobs'[j].status = "pending" ]_vars

\* one job has completed and another has failed
C28_Witness ==
    \E j, k \in DOMAIN jobs : jobs[j].status = "completed" /\ jobs[k].status = "failed"

\* C29: in every state get_job or download_job can observe, a completed job
\* has its result.zip completely written, its result set and no error; a
\* failed job has its error set and no result; completed_at is set exactly
\* when the status is completed or failed; and download_job serves a file only
\* for a completed job
C29_RecordsConsistent ==
    /\ \A j \in DOMAIN jobs :
          /\ jobs[j].status \in { "pending", "processing", "completed", "failed" }
          /\ jobs[j].status = "completed" =>
                disk[j] = "complete" /\ jobs[j].result # "None" /\ jobs[j].error = "None"
          /\ jobs[j].status = "failed" => jobs[j].error # "None" /\ jobs[j].result = "None"
          /\ jobs[j].completed_at # "None" <=> jobs[j].status \in Terminal
    /\ (response.op = "download_job" /\ response.code = 200) =>
          /\ response.status = "completed"
          /\ response.file = "complete"
          /\ jobs[response.job].status = "completed"

\* download_job has served the archive of a completed job
C29_Witness ==
    /\ response.op = "download_job"
    /\ response.code = 200
    /\ response.file = "complete"
    /\ \E k \in DOMAIN jobs : jobs[k].status = "failed" /\ disk[k] = "partial"

\* C30 as stated: every job accepted by create_job eventually reaches status
\* completed or failed, provided the worker pool eventually finishes or fails
\* each submitted task; no failure inside process_job, creating the output
\* directory included, leaves a job pending or processing forever
C30_JobsEnd ==
    \A j \in JobIds : (j \in DOMAIN jobs) ~> (j \in DOMAIN jobs /\ jobs[j].status \in Terminal)

====
